---- MODULE Spec2Model ----
(***************************************************************************)
(* Model of src/src/hash_map.rs: HashMap<V>, an open-addressing hash map   *)
(* from i32 keys to values, with linear probing, tombstones and doubling   *)
(* growth.  Code indices are 0-based; the table ht is a TLA+ sequence, so  *)
(* the slot the code calls ht[i] is ht[i + 1] here.                        *)
(***************************************************************************)
EXTENDS Integers, Sequences, FiniteSets, TLC

\* ------------------------------------------------------------------ bounds
MaxKey == 0
MaxVal == 2
MaxInitCap == 3
MaxCap == 6

\* i32 keys of the model: one negative key and the small non-negative ones.
\* -1 and 0 share the home slot at capacities 1 and 3 (-1 as usize % 3 = 0).
Keys == (-1)..MaxKey
\* values of the element type V (V: Eq + Clone)
Values == 1..MaxVal

VARIABLES
    ht,     \* HashMap::ht, the slots
    count,  \* HashMap::count
    op,     \* the last public call: [name, key, value]
    res     \* what that call returned, or the panic that ended it

vars == <<ht, count, op, res>>

\* ------------------------------------------------------------- CellState
Empty == "Empty"
Filled == "Filled"
Deleted == "Deleted"
CellState == {Empty, Filled, Deleted}

\* A slot init_table has allocated and nothing has written: only its state
\* is set; key and value are uninitialised memory, and have no value in the
\* model.  Every read of a key or a value in the source is conjoined with (or
\* guarded by) state == Filled or follows a write, so no outcome depends on
\* them: the model's tests read the state first, and TLC would stop on a read
\* of a field that is not there.
Uninit == [state |-> Empty]

\* struct Item<V>
Item(key, value, state) == [key |-> key, value |-> value, state |-> state]

\* --------------------------------------------------------- return values
\* Option<T>, Result<(), DupErr>, bool, and the panics that end a call.
None == [kind |-> "None", val |-> 0]
Some(x) == [kind |-> "Some", val |-> x]
Ok == [kind |-> "Ok", val |-> 0]
Err(key) == [kind |-> "Err", val |-> key]
Bool(b) == [kind |-> IF b THEN "true" ELSE "false", val |-> 0]
\* `key as usize % self.ht.capacity()` with capacity 0: remainder by zero
PanicRemZero == [kind |-> "PanicRemZero", val |-> 0]
\* `.unwrap()` on an Err in resize's rehash loop
PanicUnwrap(key) == [kind |-> "PanicUnwrap", val |-> key]
\* `.expect("cannot insert key-value pair")` on an Err in put
PanicExpect(key) == [kind |-> "PanicExpect", val |-> key]
\* the probe loop of insert_inner never leaves a table that is all Filled
Hang == [kind |-> "Hang", val |-> 0]
NoCall == [kind |-> "NoCall", val |-> 0]

PanicKinds == {"PanicRemZero", "PanicUnwrap", "PanicExpect", "Hang"}
IsPanic(r) == r.kind \in PanicKinds
\* the process has been ended by a panic (or hangs): no further call is made
panicked == IsPanic(res)

\* the calls: with_capacity(cap); find, contains_key, remove (key); insert, put (key, value)
Call0(name) == [name |-> name]
Call1(name, key) == [name |-> name, key |-> key]
Call2(name, key, value) == [name |-> name, key |-> key, value |-> value]

\* ------------------------------------------------------------ init_table
init_table(cap) == [i \in 1..cap |-> Uninit]

\* HashMap::with_capacity
with_capacity(cap) ==
    /\ ht = init_table(cap)
    /\ count = 0

\* HashMap::new
new == with_capacity(0)

\* HashMap::capacity (the Vec's capacity is its length: from_raw_parts(ptr, capacity, capacity))
capacity(t) == Len(t)

\* ------------------------------------------------------------ addressing
\* 2^n mod c, for c > 0
RECURSIVE Pow2Mod(_, _)
Pow2Mod(n, c) ==
    IF n = 0 THEN 1 % c
    ELSE IF n % 2 = 0
         THEN LET h == Pow2Mod(n \div 2, c) IN (h * h) % c
         ELSE (2 * Pow2Mod(n - 1, c)) % c

\* the cast zero-extending the 32-bit key: a negative key becomes 2^32 + key
AsUsizeMod_zero_extend(key, c) ==
    IF key >= 0 THEN key % c
    ELSE (Pow2Mod(32, c) + (key % c)) % c

\* (key as usize) % c on a 64-bit target: the cast sign-extends, so a
\* negative key becomes 2^64 + key.
AsUsizeMod(key, c) ==
    IF key >= 0 THEN key % c
    ELSE (Pow2Mod(64, c) + (key % c)) % c

\* HashMap::index; the caller has ruled out capacity 0 (a panic)
index(t, key) == AsUsizeMod(key, capacity(t))

\* HashMap::next_index
next_index(t, i) == (i + 1) % capacity(t)

\* ------------------------------------------------------------ find_index
\* the while loop of find_index: i is the home index, idx the cursor
RECURSIVE FindWalk(_, _, _, _)
FindWalk(t, key, i, idx) ==
    IF /\ idx # i
       /\ \/ (t[idx + 1].state = Filled /\ t[idx + 1].key # key)
          \/ t[idx + 1].state = Deleted
    THEN FindWalk(t, key, i, next_index(t, idx))
    ELSE idx

\* HashMap::find_index, for capacity(t) > 0: None or Some(index)
find_index(t, key) ==
    LET i == index(t, key)
        item == t[i + 1]
    IN  IF item.state = Filled /\ item.key = key
        THEN Some(i)
        ELSE LET idx == FindWalk(t, key, i, next_index(t, i))
             IN  IF idx = i \/ t[idx + 1].state = Empty
                 THEN None
                 ELSE Some(idx)

\* HashMap::find_index with the panic of index() on an empty table
FindIndex(t, key) ==
    IF capacity(t) = 0 THEN PanicRemZero ELSE find_index(t, key)

\* ---------------------------------------------------------- insert_inner
\* put_to_index with the slot's state left as it was
put_to_index_no_state(t, idx, key, value) ==
    [t EXCEPT ![idx + 1] = Item(key, value, t[idx + 1].state)]

\* HashMap::put_to_index
put_to_index(t, idx, key, value) ==
    [t EXCEPT ![idx + 1] = Item(key, value, Filled)]

\* the while loop of insert_inner from cursor idx: the slot to write, the
\* duplicate found, or no end (steps counts the slots seen; after capacity(t)
\* Filled slots with other keys the loop is back where it started).
RECURSIVE InsertProbe(_, _, _, _)
InsertProbe(t, key, idx, steps) ==
    IF t[idx + 1].state = Filled
    THEN IF t[idx + 1].key = key THEN [kind |-> "Dup", idx |-> idx]
         ELSE IF steps >= capacity(t) THEN [kind |-> "Loop", idx |-> idx]
         ELSE InsertProbe(t, key, next_index(t, idx), steps + 1)
    ELSE [kind |-> "Slot", idx |-> idx]

\* HashMap::insert_inner, for capacity(t) > 0: the result and the table after
insert_inner(t, key, value) ==
    LET idx == index(t, key)
    IN  IF t[idx + 1].state = Filled
        THEN IF t[idx + 1].key = key
             THEN [res |-> Err(key), ht |-> t]
             ELSE LET p == InsertProbe(t, key, next_index(t, idx), 1)
                  IN  CASE p.kind = "Dup" -> [res |-> Err(key), ht |-> t]
                        [] p.kind = "Loop" -> [res |-> Hang, ht |-> t]
                        [] OTHER -> [res |-> Ok, ht |-> put_to_index(t, p.idx, key, value)]
        ELSE [res |-> Ok, ht |-> put_to_index(t, idx, key, value)]

\* ---------------------------------------------------------------- resize
\* resize that allocates one slot whatever the capacity
NewCapacity_one(t) == 1

\* resize that forgets to double: the new table is as large as the old one
NewCapacity_same(t) == IF Len(t) = 0 THEN 1 ELSE capacity(t)

\* resize that grows by one slot instead of doubling
NewCapacity_plus_one(t) == IF Len(t) = 0 THEN 1 ELSE capacity(t) + 1

\* the capacity resize grows to
NewCapacity(t) == IF Len(t) = 0 THEN 1 ELSE capacity(t) * 2

\* the rehash loop with the filter `state != Empty`: tombstones are re-inserted too
RECURSIVE Rehash_all(_, _, _)
Rehash_all(old_ht, i, t) ==
    IF i > Len(old_ht) THEN [res |-> Ok, ht |-> t]
    ELSE IF old_ht[i].state # Empty
         THEN LET r == insert_inner(t, old_ht[i].key, old_ht[i].value)
              IN  CASE r.res = Ok -> Rehash_all(old_ht, i + 1, r.ht)
                    [] r.res.kind = "Err" -> [res |-> PanicUnwrap(old_ht[i].key), ht |-> t]
                    [] OTHER -> [res |-> r.res, ht |-> t]
         ELSE Rehash_all(old_ht, i + 1, t)

\* the rehash loop of resize: the Filled items of old_ht, from slot i on, in
\* slot order, inserted into the new table t; an Err from insert_inner is unwrapped.
RECURSIVE Rehash(_, _, _)
Rehash(old_ht, i, t) ==
    IF i > Len(old_ht) THEN [res |-> Ok, ht |-> t]
    ELSE IF old_ht[i].state = Filled
         THEN LET r == insert_inner(t, old_ht[i].key, old_ht[i].value)
              IN  CASE r.res = Ok -> Rehash(old_ht, i + 1, r.ht)
                    [] r.res.kind = "Err" -> [res |-> PanicUnwrap(old_ht[i].key), ht |-> t]
                    [] OTHER -> [res |-> r.res, ht |-> t]
         ELSE Rehash(old_ht, i + 1, t)

\* HashMap::resize: Ok and the new table, or the panic and the table that
\* self.ht holds when it is raised (mem::replace has installed the new one).
resize(t) == Rehash(t, 1, init_table(NewCapacity(t)))

\* ------------------------------------------------------- public methods
\* insert without `self.count += 1`
insert_call_no_count(t, c, key, value) ==
    LET rz == IF c = capacity(t) THEN resize(t) ELSE [res |-> Ok, ht |-> t]
    IN  IF IsPanic(rz.res)
        THEN [res |-> rz.res, ht |-> rz.ht, count |-> c]
        ELSE LET r == insert_inner(rz.ht, key, value)
             IN  [res |-> r.res, ht |-> r.ht, count |-> c]

\* HashMap::insert as a function of the state: the result, table and count
insert_call(t, c, key, value) ==
    LET rz == IF c = capacity(t) THEN resize(t) ELSE [res |-> Ok, ht |-> t]
    IN  IF IsPanic(rz.res)
        THEN [res |-> rz.res, ht |-> rz.ht, count |-> c]
        ELSE LET r == insert_inner(rz.ht, key, value)
             IN  IF IsPanic(r.res)
                 THEN [res |-> r.res, ht |-> r.ht, count |-> c]
                 ELSE [res |-> r.res, ht |-> r.ht, count |-> c + 1]

\* the model stops growing at MaxCap: a call that would grow past it is not made
CanGrow(t, c) == (c = capacity(t)) => NewCapacity(t) <= MaxCap

\* HashMap::insert
insert(key, value) ==
    /\ ~panicked
    /\ CanGrow(ht, count)
    /\ LET r == insert_call(ht, count, key, value)
       IN  /\ ht' = r.ht
           /\ count' = r.count
           /\ res' = r.res
    /\ op' = Call2("insert", key, value)

\* what HashMap::find returns on table t: Some(&ht[found].value), None, or the panic
Find(t, key) ==
    LET f == FindIndex(t, key)
    IN  IF f.kind = "Some" THEN Some(t[f.val + 1].value) ELSE f

\* what HashMap::contains_key returns on table t: find_index(key).is_some(), or the panic
ContainsKey(t, key) ==
    LET f == FindIndex(t, key)
    IN  IF IsPanic(f) THEN f ELSE Bool(f.kind = "Some")

\* HashMap::find
find(key) ==
    /\ ~panicked
    /\ res' = Find(ht, key)
    /\ op' = Call1("find", key)
    /\ UNCHANGED <<ht, count>>

\* HashMap::contains_key
contains_key(key) ==
    /\ ~panicked
    /\ res' = ContainsKey(ht, key)
    /\ op' = Call1("contains_key", key)
    /\ UNCHANGED <<ht, count>>

\* mem::replace that hands back the value it has just stored
mem_replace_returns_new(t, idx, value) ==
    [res |-> Some(value), ht |-> [t EXCEPT ![idx + 1].value = value]]

\* Some(mem::replace(&mut self.ht[index].value, value)): the old value, and the table after
mem_replace(t, idx, value) ==
    [res |-> Some(t[idx + 1].value), ht |-> [t EXCEPT ![idx + 1].value = value]]

\* remove's slot left Filled
mark_deleted_skipped(t, idx) == t

\* remove that frees the slot instead of leaving a tombstone
mark_deleted_as_empty(t, idx) == [t EXCEPT ![idx + 1] = Uninit]

\* self.ht[index].state = CellState::Deleted
mark_deleted(t, idx) == [t EXCEPT ![idx + 1].state = Deleted]

\* HashMap::put
put(key, value) ==
    /\ ~panicked
    /\ LET f == FindIndex(ht, key)
       IN  CASE f.kind = "Some" ->
                  /\ LET r == mem_replace(ht, f.val, value)
                     IN  ht' = r.ht /\ res' = r.res
                  /\ count' = count
             [] f.kind = "None" ->
                  /\ CanGrow(ht, count)
                  /\ LET r == insert_call(ht, count, key, value)
                     IN  /\ ht' = r.ht
                         /\ count' = r.count
                         /\ res' = CASE r.res = Ok -> None
                                     [] r.res.kind = "Err" -> PanicExpect(key)
                                     [] OTHER -> r.res
             [] OTHER ->
                  /\ res' = f
                  /\ UNCHANGED <<ht, count>>
    /\ op' = Call2("put", key, value)

\* HashMap::remove
remove(key) ==
    /\ ~panicked
    /\ LET f == FindIndex(ht, key)
       IN  IF f.kind = "Some"
           THEN /\ ht' = mark_deleted(ht, f.val)
                /\ count' = count - 1
                /\ res' = Some(ht[f.val + 1].value)
           ELSE /\ res' = f
                /\ UNCHANGED <<ht, count>>
    /\ op' = Call1("remove", key)

\* ------------------------------------------------------------ the system
Init ==
    /\ \E cap \in 0..MaxInitCap : with_capacity(cap)
    /\ op = Call0("with_capacity")
    /\ res = NoCall

Next ==
    \/ \E key \in Keys, value \in Values : insert(key, value)
    \/ \E key \in Keys, value \in Values : put(key, value)
    \/ \E key \in Keys : remove(key)
    \/ \E key \in Keys : find(key)
    \/ \E key \in Keys : contains_key(key)

Spec == Init /\ [][Next]_vars

\* ------------------------------------------------------ derived notions
\* the slots of t that are Filled with key
FilledWith(t, key) ==
    {i \in 1..Len(t) : t[i].state = Filled /\ t[i].key = key}

\* the number of Filled slots of t
NumFilled(t) == Cardinality({i \in 1..Len(t) : t[i].state = Filled})

TypeOK ==
    /\ Len(ht) <= MaxCap
    /\ count \in 0..MaxCap
    /\ \A i \in 1..Len(ht) :
         /\ ht[i].state \in CellState
         /\ IF ht[i].state = Empty
            THEN ht[i] = Uninit
            ELSE ht[i].key \in Keys /\ ht[i].value \in Values

\* some slot of t is a tombstone
HasDeleted(t) == \E i \in 1..Len(t) : t[i].state = Deleted

\* key is present in t: find succeeds
Present(t, key) == Find(t, key).kind = "Some"

\* ------------------------------------------------------------------- C1
\* C1 (round trip): whenever the last call was insert(k, v) and it returned
\* Ok, find(k) on the table it left returns Some(v) and contains_key(k) is
\* true, whether the insert wrote an Empty slot, reused a tombstone or grew
\* the table first.
C1_RoundTrip ==
    (op.name = "insert" /\ res = Ok)
        => /\ Find(ht, op.key) = Some(op.value)
           /\ ContainsKey(ht, op.key) = Bool(TRUE)

\* an insert has succeeded in a table that holds a tombstone, and the key is found
C1_Witness ==
    /\ op.name = "insert"
    /\ res = Ok
    /\ HasDeleted(ht)
    /\ Find(ht, op.key) = Some(op.value)

\* ------------------------------------------------------------------- C2
\* C2 (duplicate rejection): every insert(k, v) made in a state where k is
\* present (find(k) succeeds) returns Err(DupErr {k}).
C2_DuplicateRejected ==
    [][(op'.name = "insert" /\ Present(ht, op'.key)) => res' = Err(op'.key)]_vars

\* ------------------------------------------------------------------- C3
\* C3 (key uniqueness): for every key at most one slot is Filled with it.
C3_KeyUnique ==
    \A k \in Keys : Cardinality(FilledWith(ht, k)) <= 1

\* ------------------------------------------------------------------- C4
\* C4 (count invariant): after every public call that completes, count is
\* the number of Filled slots.
C4_CountIsFilled ==
    ~panicked => count = NumFilled(ht)

\* ------------------------------------------------------------------- C5
\* C5 (remove makes the key absent): every remove(k) made in a state where
\* find(k) is Some(v) returns Some(v) and leaves a table on which find(k) is
\* None, contains_key(k) is false and (so) a second remove(k) finds nothing.
C5_RemoveMakesAbsent ==
    [][(op'.name = "remove" /\ Present(ht, op'.key))
         => /\ res' = Find(ht, op'.key)
            /\ Find(ht', op'.key) = None
            /\ ContainsKey(ht', op'.key) = Bool(FALSE)
            /\ FindIndex(ht', op'.key) = None]_vars

\* ------------------------------------------------------------------- C6
\* the step is an insert (direct, or the one put delegates to) that calls resize
ResizingInsert ==
    /\ count = capacity(ht)
    /\ \/ op'.name = "insert"
       \/ op'.name = "put" /\ ~IsPanic(FindIndex(ht, op'.key)) /\ ~Present(ht, op'.key)

\* C6 (growth preserves content): over every insert that calls resize, each
\* key found before is found afterwards with the same value, and each key
\* other than the inserted one that was not found before is not found after.
C6_GrowthPreserves ==
    [][ResizingInsert
         => \A k \in Keys :
              /\ Present(ht, k) => Find(ht', k) = Find(ht, k)
              /\ (~Present(ht, k) /\ k # op'.key) => ~Present(ht', k)]_vars

\* ------------------------------------------------------------------- C7
\* C7 (upsert): every put(k, v2) made in a state where find(k) is Some(v1)
\* returns Some(v1), leaves find(k) = Some(v2), and leaves count, capacity
\* and every slot's state as they were; and a put(k, v2) that follows a
\* completed put(k, v1) returns Some(v1).
C7_Upsert ==
    [][(op'.name = "put")
         => /\ Present(ht, op'.key)
                => /\ res' = Find(ht, op'.key)
                   /\ Find(ht', op'.key) = Some(op'.value)
                   /\ count' = count
                   /\ capacity(ht') = capacity(ht)
                   /\ \A i \in 1..Len(ht) : ht'[i].state = ht[i].state
            /\ (op.name = "put" /\ op.key = op'.key)
                => res' = Some(op.value)]_vars

\* a put has overwritten a different value and returned it
C7_Witness ==
    /\ op.name = "put"
    /\ res.kind = "Some"
    /\ res.val # op.value
    /\ Find(ht, op.key) = Some(op.value)
    /\ \E v \in Values : ENABLED (put(op.key, v) /\ res' = Some(op.value))

\* ------------------------------------------------------------------- C8
\* C8 (lookups are total): find, contains_key and remove never end in a
\* panic, on any table, the one with capacity 0 included.
C8_LookupsTotal ==
    (op.name \in {"find", "contains_key", "remove"}) => ~IsPanic(res)

\* ------------------------------------------------------------------- C9
\* C9 (a failed insert has no effect): every insert that returns Err leaves
\* count as it was and find(k), for every key k, as it was.
C9_FailedInsertNoEffect ==
    [][(op'.name = "insert" /\ res'.kind = "Err")
         => /\ count' = count
            /\ \A k \in Keys : Find(ht', k) = Find(ht, k)]_vars

\* ------------------------------------------------------------------ C10
\* C10 (tombstone reuse): every insert(k, v2) that follows a remove(k) which
\* found k returns Ok and leaves find(k) = Some(v2).
C10_TombstoneReuse ==
    [][(op.name = "remove" /\ res.kind = "Some"
           /\ op'.name = "insert" /\ op'.key = op.key)
         => /\ res' = Ok
            /\ Find(ht', op'.key) = Some(op'.value)]_vars

\* a remove(k) has found k, and insert(k, v2) with a value other than the
\* removed one then succeeds and is found
C10_Witness ==
    /\ op.name = "remove"
    /\ res.kind = "Some"
    /\ \E v \in Values :
         /\ v # res.val
         /\ ENABLED (insert(op.key, v) /\ res' = Ok /\ Find(ht', op.key) = Some(v))

\* ------------------------------------------------------------------ C11
\* C11 (capacity monotonicity): no step, of any call, lowers capacity().
C11_CapacityMonotone ==
    [][capacity(ht') >= capacity(ht)]_vars

\* an insert has left a table larger than any with_capacity of the model makes
C11_Witness ==
    /\ op.name = "insert"
    /\ capacity(ht) > MaxInitCap

\* ------------------------------------------------------------------ C12
\* C12 (put never fails on an absent key): every put(k, v) made on a table
\* of capacity > 0 on which find(k) is None completes, returns None and
\* leaves find(k) = Some(v); in particular its expect never fires.
C12_PutAbsent ==
    [][(op'.name = "put" /\ capacity(ht) > 0 /\ Find(ht, op'.key) = None)
         => /\ res' = None
            /\ Find(ht', op'.key) = Some(op'.value)]_vars

\* ------------------------------------------------------------------ C13
\* C13 (count bound): count <= capacity in every state, after failed
\* inserts too.
C13_CountBound ==
    count <= capacity(ht)

\* a failed insert has left count at the capacity, above the number of Filled slots
C13_Witness ==
    /\ op.name = "insert"
    /\ res.kind = "Err"
    /\ count = capacity(ht)
    /\ NumFilled(ht) < count

\* ------------------------------------------------------------------ C14
\* the step changes the capacity: resize has run in it
Grows == capacity(ht') # capacity(ht)

\* the step is an insert, made directly or by put for a key it did not find
InsertStep ==
    \/ op'.name = "insert"
    \/ op'.name = "put" /\ ~IsPanic(FindIndex(ht, op'.key)) /\ ~Present(ht, op'.key)

\* C14 (resize only at load 1.0): every step that grows the table is an
\* insert made when every slot of the table is Filled (or the capacity is 0).
C14_ResizeOnlyWhenFull ==
    [][Grows => (InsertStep /\ NumFilled(ht) = capacity(ht))]_vars

\* ------------------------------------------------------------------ C15
\* C15 (growth policy): every step that changes the capacity takes it from
\* 0 to 1 or from c to 2 * c, and is an insert (direct, or the one put makes
\* for an absent key); remove, find, contains_key and put on a present key
\* leave the capacity alone.
C15_GrowthPolicy ==
    [][Grows
         => /\ capacity(ht') = IF capacity(ht) = 0 THEN 1 ELSE 2 * capacity(ht)
            /\ InsertStep]_vars

\* a put for an absent key has left a table twice as large as the largest
\* with_capacity of the model makes
C15_Witness ==
    /\ op.name = "put"
    /\ res = None
    /\ capacity(ht) = 2 * MaxInitCap

\* ------------------------------------------------------------------ C16
\* C16 (resize discards tombstones and keeps live entries): in every state
\* in which the next insert calls resize (count = capacity), the table a
\* completed resize installs, before the insert writes its own entry, has
\* no Deleted slot and as many Filled slots as the old table.
C16_ResizeDropsTombstones ==
    (~panicked /\ count = capacity(ht) /\ resize(ht).res = Ok)
        => /\ ~HasDeleted(resize(ht).ht)
           /\ NumFilled(resize(ht).ht) = NumFilled(ht)

\* the next insert resizes a table that holds a tombstone and a live entry,
\* the resize completes, and the insert can be made
C16_Witness ==
    /\ ~panicked
    /\ count = capacity(ht)
    /\ HasDeleted(ht)
    /\ NumFilled(ht) > 0
    /\ resize(ht).res = Ok
    /\ \E k \in Keys, v \in Values :
         ENABLED (insert(k, v) /\ capacity(ht') = 2 * capacity(ht) /\ ~HasDeleted(ht'))

\* ------------------------------------------------------------------ C17
\* the slots the probe sequence visits from index h up to, not including, index j
ProbePath(t, h, j) ==
    {(h + d) % capacity(t) : d \in 0..(((j - h) % capacity(t)) - 1)}

\* the slot at index j is reached from its key's home slot over no Empty slot
Reachable(t, j) ==
    \A p \in ProbePath(t, index(t, t[j + 1].key), j) : t[p + 1].state # Empty

\* C17 (reachability): on every table of capacity > 0, every Filled slot is
\* reached from the home slot of its key by the probe sequence without
\* passing an Empty slot, and find(k) succeeds exactly when some slot is
\* Filled with k.
C17_Reachability ==
    capacity(ht) > 0
        => /\ \A j \in 0..(capacity(ht) - 1) :
                ht[j + 1].state = Filled => Reachable(ht, j)
           /\ \A k \in Keys : Present(ht, k) <=> FilledWith(ht, k) # {}

\* a Filled slot lies behind a tombstone on its key's probe sequence, and is found
C17_Witness ==
    /\ capacity(ht) > 0
    /\ \E j \in 0..(capacity(ht) - 1) :
         /\ ht[j + 1].state = Filled
         /\ \E p \in ProbePath(ht, index(ht, ht[j + 1].key), j) : ht[p + 1].state = Deleted
         /\ Present(ht, ht[j + 1].key)

\* ------------------------------------------------------------------ C18
\* the table insert_inner runs on, for an insert made in this state: the
\* one resize leaves when count = capacity, else the table as it is
InsertTable(t, c) == IF c = capacity(t) THEN resize(t).ht ELSE t

\* C18 (insert terminates): no call ever ends in the probe loop of
\* insert_inner running without exit, and in every state the table that the
\* next insert hands to insert_inner has a slot that is not Filled.
C18_InsertTerminates ==
    /\ res # Hang
    /\ ~panicked =>
         /\ count = capacity(ht) => NumFilled(ht) < NewCapacity(ht)
         /\ NumFilled(InsertTable(ht, count)) < capacity(InsertTable(ht, count))

\* an insert has probed past Filled slots and filled the last free slot of
\* a table of at least two slots
C18_Witness ==
    /\ op.name = "insert"
    /\ res = Ok
    /\ capacity(ht) >= 2
    /\ NumFilled(ht) = capacity(ht)

\* ------------------------------------------------------------------ C19
\* C19 (resize never aborts): no call ends in the unwrap of resize's
\* rehash loop firing on a duplicate-key error.
C19_ResizeNeverAborts ==
    res.kind # "PanicUnwrap"

\* ------------------------------------------------------------------ C20
\* capacities and keys of the home-slot computation
MaxIdxCap == 7
MaxAbsKey == 7

\* the ends of the i32 key range
MinI32 == -2147483647 - 1
MaxI32 == -(MinI32 + 1)

IndexKeys == ((-MaxAbsKey)..MaxAbsKey) \cup {MinI32, MaxI32}

\* an empty table of any capacity > 0, before any call
IndexInit ==
    /\ \E cap \in 1..MaxIdxCap : with_capacity(cap)
    /\ op = Call0("with_capacity")
    /\ res = NoCall

\* one call of HashMap::index
IndexStep(key) ==
    /\ res' = Some(index(ht, key))
    /\ op' = Call1("index", key)
    /\ UNCHANGED <<ht, count>>

IndexNext == \E key \in IndexKeys : IndexStep(key)

IndexSpec == IndexInit /\ [][IndexNext]_vars

\* 2^64 mod c, by squaring 2^16 twice
TwoTo64Mod(c) ==
    LET a == 65536 % c
        b == (a * a) % c
    IN  (b * b) % c

IsPowerOfTwo(c) == \E e \in 0..c : Pow2Mod(e, c + 1) = c

\* C20 as stated (home slot = k mod c): the home index computed for key k
\* on a table of capacity c > 0 lies in 0..c-1 and equals k mod c, the
\* non-negative remainder, for negative keys and any capacity too.
C20_HomeIsKeyModC ==
    op.name = "index"
        => /\ res.val \in 0..(capacity(ht) - 1)
           /\ res.val = op.key % capacity(ht)

\* C20 (home slot, amended): the home index lies in 0..c-1; it equals
\* k mod c for every key k >= 0, and for every key when c is a power of
\* two; for k < 0 it is (2^64 + k) mod c.
C20_HomeIsUsizeModC ==
    op.name = "index"
        => /\ res.val \in 0..(capacity(ht) - 1)
           /\ (op.key >= 0 \/ IsPowerOfTwo(capacity(ht)))
                => res.val = op.key % capacity(ht)
           /\ op.key < 0
                => res.val = (TwoTo64Mod(capacity(ht)) + (op.key % capacity(ht))) % capacity(ht)

\* a negative key on a capacity that is no power of two, whose home index
\* is not k mod c
C20_Witness ==
    /\ op.name = "index"
    /\ op.key < 0
    /\ ~IsPowerOfTwo(capacity(ht))
    /\ res.val # op.key % capacity(ht)

====
